---- MODULE Spec2Model ----
(***************************************************************************)
(* py-alarm-sink: the Alarm record (alarm_sink.py, class Alarm) and the    *)
(* AlarmSink operations submit_alarm and purge_alarm, run against the NCS  *)
(* alarm list through one write transaction per call.                      *)
(*                                                                         *)
(* Python values are modelled as follows.  An optional value is a sequence *)
(* of length 0 (None) or 1 (the value); a text is a sequence of            *)
(* characters; a timestamp is a string; a list with keys (alarm list,      *)
(* status_change) is a function whose domain is the set of keys that       *)
(* exist.                                                                  *)
(***************************************************************************)
EXTENDS Integers, Sequences, FiniteSets, TLC

VARIABLES
    store,      \* the committed alarm list: key 4-tuple -> entry
    t_write,    \* the write transaction of the call in progress
    pc,         \* position of the caller / of the call in progress
    alarm,      \* the Alarm object the caller holds
    alarm_id,   \* the AlarmId handed to purge_alarm
    last,       \* the most recent operation and how it ended
    calls,      \* number of submit_alarm and purge_alarm calls made so far
    other       \* a second caller of submit_alarm: its position, its Alarm
                \* and its write transaction

vars == <<store, t_write, pc, alarm, alarm_id, last, calls, other>>

----------------------------------------------------------------------------
(* Bounds and input sets *)

MaxCalls == 3

Timestamps == {"t1", "t2"}

None == <<>>
Some(x) == <<x>>

Devices == {"c0"}
ManagedObjects == {"/mo"}
Types == {"t"}
SpecificProblems == {None, Some(""), Some("p")}

Texts == {<<"u", "p">>, <<"d", "n">>}

----------------------------------------------------------------------------
(* class PerceivedSeverity(Enum) *)

PerceivedSeverity ==
    [CLEARED |-> 1, INDETERMINATE |-> 2, MINOR |-> 3,
     WARNING |-> 4, MAJOR |-> 5, CRITICAL |-> 6]

Members == DOMAIN PerceivedSeverity

Severities == {"CLEARED", "MINOR", "MAJOR"}

(* class AlarmId(namedtuple) *)
AlarmId(device, managed_object, type, specific_problem) ==
    [device |-> device, managed_object |-> managed_object,
     type |-> type, specific_problem |-> specific_problem]

AlarmIds ==
    {AlarmId(d, mo, ty, sp) : d \in Devices, mo \in ManagedObjects,
                               ty \in Types, sp \in SpecificProblems}

ObjectLists == {None}
RelatedLists == {None}

----------------------------------------------------------------------------
(* class Alarm *)

NoAlarm == [none |-> TRUE]
NoId == [none |-> TRUE]

\* Alarm.__init__: every argument is stored as given, the severity and the
\* text through the private attributes (no setter runs); a falsy timestamp
\* is replaced by the current time.
Alarm(id, severity, alarm_text, timestamp, now, impacted_objects, related_alarms, root_cause_objects) ==
    [device |-> id.device,
     managed_object |-> id.managed_object,
     type |-> id.type,
     specific_problem |-> id.specific_problem,
     severity |-> severity,
     alarm_text |-> alarm_text,
     timestamp |-> IF timestamp = None \/ timestamp = Some("")
                   THEN now ELSE timestamp[1],
     impacted_objects |-> impacted_objects,
     related_alarms |-> related_alarms,
     root_cause_objects |-> root_cause_objects]

\* Alarm.cleared (getter)
cleared(a) == a.severity = "CLEARED"

\* the position of the member in the enumeration, counted from 0
ncs_severity_ordinal(a) == PerceivedSeverity[a.severity] - 1

\* Alarm.ncs_severity
ncs_severity(a) == PerceivedSeverity[a.severity]

\* Alarm.alarm_text (setter)
max_length == 1024
truncated ==
    <<" ", ".", ".", " ", "[", "t", "r", "u", "n", "c", "a", "t", "e", "d", "]">>

alarm_text_set(a, value) ==
    IF Len(value) > max_length
    THEN [a EXCEPT !.alarm_text =
              SubSeq(value, 1, max_length - Len(truncated)) \o truncated]
    ELSE [a EXCEPT !.alarm_text = value]

\* a cleared setter that takes False as "not cleared any more"
cleared_set_assign(a, value) ==
    IF value THEN [a EXCEPT !.severity = "CLEARED"]
    ELSE [a EXCEPT !.severity = "MINOR"]

\* Alarm.cleared (setter)
cleared_set(a, value) ==
    IF value THEN [a EXCEPT !.severity = "CLEARED"] ELSE a

\* Alarm.severity (setter): TRUE when it raises ValueError
severity_set_raises(value) == value = "CLEARED"

severity_set(a, value) == [a EXCEPT !.severity = value]

----------------------------------------------------------------------------
(* The alarm list *)

\* x or ''
OrEmpty(x) == IF x = None \/ x = Some("") THEN "" ELSE x[1]

\* the key submit_alarm hands to alarm_list.exists and alarm_list.create
SubmitKey(a) ==
    <<a.device, a.type, a.managed_object, OrEmpty(a.specific_problem)>>

\* the key of purge_alarm without "or ''"
PurgeKeyAsGiven(id) ==
    <<id.device, id.type, id.managed_object,
      IF id.specific_problem = None THEN "None" ELSE id.specific_problem[1]>>

\* the key purge_alarm deletes
PurgeKey(id) ==
    <<id.device, id.type, id.managed_object, OrEmpty(id.specific_problem)>>

Unset == <<>>

\* an entry alarm_list.create has just made: no leaf is set
NewEntry ==
    [is_cleared |-> Unset,
     last_perceived_severity |-> Unset,
     last_alarm_text |-> Unset,
     last_status_change |-> Unset,
     impacted_objects |-> <<>>,
     root_cause_objects |-> <<>>,
     related_alarms |-> {},
     status_change |-> <<>>]

\* the existence test answering yes for every key
ExistsAlways(alarm_list, key) == TRUE

\* alarm_list.exists(key)
Exists(alarm_list, key) == key \in DOMAIN alarm_list

\* alarm_list.create(key): the entry of that key, made if it is missing
Create(alarm_list, key) ==
    IF key \in DOMAIN alarm_list
    THEN alarm_list
    ELSE [k \in DOMAIN alarm_list \cup {key} |->
              IF k = key THEN NewEntry ELSE alarm_list[k]]

\* a delete that takes every entry of the same device, type and object
DeleteSameObject(alarm_list, key) ==
    [k \in {x \in DOMAIN alarm_list :
                <<x[1], x[2], x[3]>> # <<key[1], key[2], key[3]>>} |->
        alarm_list[k]]

\* del alarm_list[key]
Delete(alarm_list, key) ==
    [k \in DOMAIN alarm_list \ {key} |-> alarm_list[k]]

\* a status change that is left as it is when its time exists already
StatusChangeCreateKeepsFirst(status_change, timestamp, severity, text) ==
    [t \in DOMAIN status_change \cup {timestamp} |->
        IF t \in DOMAIN status_change
        THEN status_change[t]
        ELSE [perceived_severity |-> severity, alarm_text |-> text]]

\* al.status_change.create(timestamp) followed by the two leaf writes
StatusChangeCreate(status_change, timestamp, severity, text) ==
    [t \in DOMAIN status_change \cup {timestamp} |->
        IF t = timestamp
        THEN [perceived_severity |-> severity, alarm_text |-> text]
        ELSE status_change[t]]

\* assigning an optional list to a leaf-list
LeafList(x) == IF x = None THEN <<>> ELSE x[1]

\* the keys al.related_alarms.create is called with; specific_problem is
\* passed as it is
RelatedOf(a) ==
    IF a.related_alarms = None THEN {}
    ELSE {a.related_alarms[1][i] : i \in DOMAIN a.related_alarms[1]}

\* the key al.related_alarms.create makes for one related alarm when it
\* does not raise: a specific_problem of None is converted to text
RelatedKeys(ra) ==
    IF ra.specific_problem = None
    THEN {<<ra.device, ra.type, ra.managed_object, "None">>}
    ELSE {<<ra.device, ra.type, ra.managed_object, ra.specific_problem[1]>>}

\* al.related_alarms.create may refuse a key that holds None
RelatedMayRaise(a) == \E ra \in RelatedOf(a) : ra.specific_problem = None

\* alarm.ncs_severity != PerceivedSeverity.CLEARED compares an int with an
\* Enum member; PerceivedSeverity is a plain Enum, so the two are never
\* equal and the test is true for every severity
NcsSeverityNotClearedMember(a) == TRUE

\* "nothing has changed" that also wants the timestamp to be the same
NothingChangedAtSameTime(al, a) ==
    /\ al.is_cleared = Some(cleared(a))
    /\ al.last_status_change = Some(a.timestamp)
    /\ \/ cleared(a)
       \/ /\ al.last_perceived_severity = Some(ncs_severity(a))
          /\ al.last_alarm_text = Some(a.alarm_text)

\* "nothing has changed" without the shortcut for a cleared alarm
NothingChangedNoShortcut(al, a) ==
    /\ al.is_cleared = Some(cleared(a))
    /\ al.last_perceived_severity = Some(ncs_severity(a))
    /\ al.last_alarm_text = Some(a.alarm_text)

\* "nothing has changed" that does not look at the text
NothingChangedIgnoresText(al, a) ==
    /\ al.is_cleared = Some(cleared(a))
    /\ \/ cleared(a)
       \/ al.last_perceived_severity = Some(ncs_severity(a))

\* the condition of "exit if nothing has changed"
NothingChanged(al, a) ==
    /\ al.is_cleared = Some(cleared(a))
    /\ \/ cleared(a)
       \/ /\ al.last_perceived_severity = Some(ncs_severity(a))
          /\ al.last_alarm_text = Some(a.alarm_text)

\* the leaf writes of submit_alarm on the entry al
WriteEntry(al, a) ==
    [is_cleared |-> Some(cleared(a)),
     last_perceived_severity |->
        IF NcsSeverityNotClearedMember(a)
        THEN Some(ncs_severity(a))
        ELSE al.last_perceived_severity,
     last_alarm_text |-> Some(a.alarm_text),
     last_status_change |-> Some(a.timestamp),
     impacted_objects |-> LeafList(a.impacted_objects),
     root_cause_objects |-> LeafList(a.root_cause_objects),
     related_alarms |->
        al.related_alarms \cup UNION {RelatedKeys(ra) : ra \in RelatedOf(a)},
     status_change |->
        StatusChangeCreate(al.status_change, a.timestamp,
                           ncs_severity(a), a.alarm_text)]

NoTrans == [open |-> FALSE, alarm_list |-> <<>>]
Trans(alarm_list) == [open |-> TRUE, alarm_list |-> alarm_list]

Ended(op, res, path) == [op |-> op, res |-> res, path |-> path]

\* the second caller before it has called
NoOther == [pc |-> "none"]

----------------------------------------------------------------------------
(* Initial state: an empty alarm list, no call in progress *)

Init ==
    /\ store = <<>>
    /\ t_write = NoTrans
    /\ pc = "idle"
    /\ alarm = NoAlarm
    /\ alarm_id = NoId
    /\ last = Ended("none", "returned", "")
    /\ calls = 0
    /\ other = NoOther

----------------------------------------------------------------------------
(* The caller builds and changes an Alarm *)

\* alarm = Alarm(alarm_id, severity, alarm_text, timestamp, ...), with the
\* arguments drawn from the given sets; the caller builds a new Alarm at the
\* start and after a call has ended
AlarmInitOf(ids, severities, texts, timestamps, objects, related) ==
    /\ pc = "idle"
    /\ calls < MaxCalls
    /\ last.op \in {"none", "submit_alarm", "purge_alarm"}
    /\ \E id \in ids, severity \in severities, text \in texts,
          timestamp \in {None} \cup {Some(t) : t \in timestamps},
          io \in objects, ra \in related, rc \in objects :
         \E now \in (IF timestamp = None THEN timestamps ELSE {"t1"}) :
            alarm' = Alarm(id, severity, text, timestamp, now, io, ra, rc)
    /\ alarm_id' = NoId
    /\ last' = Ended("Alarm", "returned", "")
    /\ UNCHANGED <<store, t_write, pc, calls, other>>

AlarmInit ==
    AlarmInitOf(AlarmIds, Severities, Texts, Timestamps, ObjectLists,
                RelatedLists)

\* alarm.cleared = value
ClearedSetter ==
    /\ pc = "idle"
    /\ calls < MaxCalls
    /\ alarm # NoAlarm
    /\ \E value \in BOOLEAN : alarm' = cleared_set(alarm, value)
    /\ last' = Ended("cleared", "returned", "")
    /\ UNCHANGED <<store, t_write, pc, alarm_id, calls, other>>

\* alarm.severity = value
SeveritySetterOf(severities) ==
    /\ pc = "idle"
    /\ calls < MaxCalls
    /\ alarm # NoAlarm
    /\ \E value \in severities :
         IF severity_set_raises(value)
         THEN /\ alarm' = alarm
              /\ last' = Ended("severity", "raised", "ValueError")
         ELSE /\ alarm' = severity_set(alarm, value)
              /\ last' = Ended("severity", "returned", "")
    /\ UNCHANGED <<store, t_write, pc, alarm_id, calls, other>>

SeveritySetter == SeveritySetterOf(Severities)

\* alarm.alarm_text = value
AlarmTextSetterOf(texts) ==
    /\ pc = "idle"
    /\ calls < MaxCalls
    /\ alarm # NoAlarm
    /\ \E value \in texts : alarm' = alarm_text_set(alarm, value)
    /\ last' = Ended("alarm_text", "returned", "")
    /\ UNCHANGED <<store, t_write, pc, alarm_id, calls, other>>

AlarmTextSetter == AlarmTextSetterOf(Texts)

----------------------------------------------------------------------------
(* AlarmSink.submit_alarm *)

\* with self.maapi.start_write_trans(...) as t_write
SubmitStart ==
    /\ pc = "idle"
    /\ alarm # NoAlarm
    /\ calls < MaxCalls
    /\ t_write' = Trans(store)
    /\ pc' = "submit_alarm"
    /\ last' = Ended("submit_alarm", "running", "")
    /\ calls' = calls + 1
    /\ UNCHANGED <<store, alarm, alarm_id, other>>

\* the same step without the with block: the early return leaves the
\* transaction open
SubmitCheckLeavesTransOpen ==
    /\ pc = "submit_alarm"
    /\ LET key == SubmitKey(alarm)
       IN  IF cleared(alarm) /\ ~Exists(t_write.alarm_list, key)
           THEN /\ t_write' = t_write
                /\ pc' = "idle"
                /\ last' = Ended("submit_alarm", "returned", "absent")
           ELSE /\ t_write' = Trans(Create(t_write.alarm_list, key))
                /\ pc' = "submit_entry"
                /\ last' = Ended("submit_alarm", "running",
                                 IF Exists(t_write.alarm_list, key)
                                 THEN "update" ELSE "create")
    /\ UNCHANGED <<store, alarm, alarm_id, calls, other>>

\* lines 183-191: return when a cleared alarm has no entry, otherwise
\* create (or find) the entry in the transaction
SubmitCheck ==
    /\ pc = "submit_alarm"
    /\ LET key == SubmitKey(alarm)
       IN  IF cleared(alarm) /\ ~Exists(t_write.alarm_list, key)
           THEN /\ t_write' = NoTrans
                /\ pc' = "idle"
                /\ last' = Ended("submit_alarm", "returned", "absent")
           ELSE /\ t_write' = Trans(Create(t_write.alarm_list, key))
                /\ pc' = "submit_entry"
                /\ last' = Ended("submit_alarm", "running",
                                 IF Exists(t_write.alarm_list, key)
                                 THEN "update" ELSE "create")
    /\ UNCHANGED <<store, alarm, alarm_id, calls, other>>

\* lines 203-225: return when nothing has changed, otherwise write the
\* leaves, the related alarms and the status change
SubmitWrite ==
    /\ pc = "submit_entry"
    /\ LET key == SubmitKey(alarm)
           al == t_write.alarm_list[key]
       IN  IF NothingChanged(al, alarm)
           THEN /\ t_write' = NoTrans
                /\ pc' = "idle"
                /\ last' = Ended("submit_alarm", "returned", "unchanged")
           ELSE \/ /\ RelatedMayRaise(alarm)
                   /\ t_write' = NoTrans
                   /\ pc' = "idle"
                   /\ last' = Ended("submit_alarm", "raised", "related")
                \/ /\ t_write' =
                        Trans([t_write.alarm_list EXCEPT
                                  ![key] = WriteEntry(al, alarm)])
                   /\ pc' = "apply"
                   /\ last' = last
    /\ UNCHANGED <<store, alarm, alarm_id, calls, other>>

----------------------------------------------------------------------------
(* AlarmSink.purge_alarm *)

PurgeStartOf(ids) ==
    /\ pc = "idle"
    /\ calls < MaxCalls
    /\ \E id \in ids : alarm_id' = id
    /\ alarm' = NoAlarm
    /\ t_write' = Trans(store)
    /\ pc' = "purge_alarm"
    /\ last' = Ended("purge_alarm", "running", "")
    /\ calls' = calls + 1
    /\ UNCHANGED <<store, other>>

PurgeStart == PurgeStartOf(AlarmIds)

\* purge_alarm without the except clause: the KeyError reaches the caller
PurgeBodyKeyErrorEscapes ==
    /\ pc = "purge_alarm"
    /\ LET key == PurgeKey(alarm_id)
       IN  IF Exists(t_write.alarm_list, key)
           THEN /\ t_write' = Trans(Delete(t_write.alarm_list, key))
                /\ pc' = "apply"
                /\ last' = Ended("purge_alarm", "running", "delete")
           ELSE /\ t_write' = NoTrans
                /\ pc' = "idle"
                /\ last' = Ended("purge_alarm", "raised", "missing")
    /\ UNCHANGED <<store, alarm, alarm_id, calls, other>>

\* del alarm_list[...] inside try / except KeyError
PurgeBody ==
    /\ pc = "purge_alarm"
    /\ LET key == PurgeKey(alarm_id)
       IN  IF Exists(t_write.alarm_list, key)
           THEN /\ t_write' = Trans(Delete(t_write.alarm_list, key))
                /\ pc' = "apply"
                /\ last' = Ended("purge_alarm", "running", "delete")
           ELSE /\ t_write' = NoTrans
                /\ pc' = "idle"
                /\ last' = Ended("purge_alarm", "returned", "missing")
    /\ UNCHANGED <<store, alarm, alarm_id, calls, other>>

----------------------------------------------------------------------------
(* t_write.apply() and the exit of the with block *)

\* t_write.apply() succeeds: the transaction's alarm list is committed
ApplyOk ==
    /\ pc = "apply"
    /\ store' = t_write.alarm_list
    /\ t_write' = NoTrans
    /\ pc' = "idle"
    /\ last' = Ended(last.op, "returned", last.path)
    /\ UNCHANGED <<alarm, alarm_id, calls, other>>

\* a failed apply whose error is caught: the call returns
ApplyFailsSwallowed ==
    /\ pc = "apply"
    /\ t_write' = NoTrans
    /\ pc' = "idle"
    /\ last' = Ended(last.op, "returned", last.path)
    /\ UNCHANGED <<store, alarm, alarm_id, calls, other>>

\* t_write.apply() raises: nothing is committed and the error leaves the
\* with block, which ends the transaction
ApplyFails ==
    /\ pc = "apply"
    /\ t_write' = NoTrans
    /\ pc' = "idle"
    /\ last' = Ended(last.op, "raised", last.path)
    /\ UNCHANGED <<store, alarm, alarm_id, calls, other>>

----------------------------------------------------------------------------

Next ==
    \/ AlarmInit
    \/ ClearedSetter
    \/ SeveritySetter
    \/ AlarmTextSetter
    \/ SubmitStart
    \/ SubmitCheck
    \/ SubmitWrite
    \/ PurgeStart
    \/ PurgeBody
    \/ ApplyOk
    \/ ApplyFails

Spec == Init /\ [][Next]_vars

----------------------------------------------------------------------------
(* The same operations with every member of PerceivedSeverity as input and *)
(* one timestamp                                                           *)

SevIds == {id \in AlarmIds : id.specific_problem # Some("")}

AlarmInitSev ==
    AlarmInitOf(SevIds, Members, Texts, {"t1"}, ObjectLists, RelatedLists)

SeveritySetterSev == SeveritySetterOf(Members)

PurgeStartSev == PurgeStartOf(SevIds)

NextSev ==
    \/ AlarmInitSev
    \/ ClearedSetter
    \/ SeveritySetterSev
    \/ AlarmTextSetter
    \/ SubmitStart
    \/ SubmitCheck
    \/ SubmitWrite
    \/ PurgeStartSev
    \/ PurgeBody
    \/ ApplyOk
    \/ ApplyFails

SpecSev == Init /\ [][NextSev]_vars

----------------------------------------------------------------------------
(* The same operations with a text that is longer than max_length among    *)
(* the inputs                                                              *)

\* a text of max_length + 1 characters
LongText == [i \in 1..(max_length + 1) |-> "x"]

LongTexts == {<<"d", "n">>, LongText}

TextIds == {AlarmId("c0", "/mo", "t", None)}

AlarmInitText ==
    AlarmInitOf(TextIds, {"CLEARED", "MINOR"}, LongTexts, {"t1"},
                ObjectLists, RelatedLists)

AlarmTextSetterText == AlarmTextSetterOf(LongTexts)

NextText ==
    \/ AlarmInitText
    \/ AlarmTextSetterText
    \/ SubmitStart
    \/ SubmitCheck
    \/ SubmitWrite
    \/ ApplyOk
    \/ ApplyFails

SpecText == Init /\ [][NextText]_vars

----------------------------------------------------------------------------
(* The same operations with impacted objects, root cause objects and       *)
(* related alarms among the inputs                                         *)

CorrIds == {AlarmId("c0", "/mo", "t", sp) : sp \in {None, Some("p")}}

CorrObjects == {None, Some(<<"/o1">>)}

CorrRelated == {None} \cup {Some(<<id>>) : id \in CorrIds}

AlarmInitCorr ==
    AlarmInitOf(CorrIds, {"CLEARED", "MINOR"}, {<<"d", "n">>}, {"t1"},
                CorrObjects, CorrRelated)

PurgeStartCorr == PurgeStartOf(CorrIds)

NextCorr ==
    \/ AlarmInitCorr
    \/ SubmitStart
    \/ SubmitCheck
    \/ SubmitWrite
    \/ PurgeStartCorr
    \/ PurgeBody
    \/ ApplyOk
    \/ ApplyFails

SpecCorr == Init /\ [][NextCorr]_vars

----------------------------------------------------------------------------
(* Two callers of submit_alarm for the same identity at the same time.     *)
(* Each call runs in its own write transaction, which works on the alarm   *)
(* list as committed when the transaction started; the code takes no lock  *)
(* and does not retry. t_write.apply() puts the writes of the transaction  *)
(* on the alarm list as committed at that time. The second caller calls    *)
(* once, while a call of the first caller is in progress.                  *)

ConcIds == {AlarmId("c0", "/mo", "t", None)}

ConcSeverities == {"CLEARED", "MINOR"}

AlarmInitConc ==
    AlarmInitOf(ConcIds, ConcSeverities, Texts, Timestamps, ObjectLists,
                RelatedLists)

\* the writes of lines 189-225 for the Alarm a, put on alarm_list
CommitSubmit(alarm_list, a) ==
    LET key == SubmitKey(a)
        lst == Create(alarm_list, key)
    IN  [lst EXCEPT ![key] = WriteEntry(lst[key], a)]

\* the second caller in its call: its position, its Alarm, the alarm list
\* of its transaction and the alarm list committed when it started
Calling(position, a, alarm_list, pre) ==
    [pc |-> position, alarm |-> a, alarm_list |-> alarm_list, pre |-> pre]

\* the second caller after its call
OtherEnded(res) ==
    [pc |-> "done", alarm |-> other.alarm, pre |-> other.pre, res |-> res]

\* the first caller starts a call; the second caller has not called yet
SubmitStartFirst ==
    /\ other = NoOther
    /\ SubmitStart

\* t_write.apply() of the first caller succeeds
ApplyOkConc ==
    /\ pc = "apply"
    /\ last.op = "submit_alarm"
    /\ store' = CommitSubmit(store, alarm)
    /\ t_write' = NoTrans
    /\ pc' = "idle"
    /\ last' = Ended(last.op, "returned", last.path)
    /\ UNCHANGED <<alarm, alarm_id, calls, other>>

\* the second caller builds an Alarm of the same identity and starts its
\* transaction
OtherStart ==
    /\ other = NoOther
    /\ pc \in {"submit_alarm", "submit_entry", "apply"}
    /\ last.op = "submit_alarm"
    /\ \E id \in ConcIds, severity \in ConcSeverities, text \in Texts,
          timestamp \in Timestamps :
         LET a == Alarm(id, severity, text, Some(timestamp), timestamp,
                        None, None, None)
         IN  /\ SubmitKey(a) = SubmitKey(alarm)
             /\ other' = Calling("submit_alarm", a, store, store)
    /\ UNCHANGED <<store, t_write, pc, alarm, alarm_id, last, calls>>

\* lines 183-191 in the second caller
OtherCheck ==
    /\ other.pc = "submit_alarm"
    /\ LET key == SubmitKey(other.alarm)
       IN  IF cleared(other.alarm) /\ ~Exists(other.alarm_list, key)
           THEN other' = OtherEnded("returned")
           ELSE other' = Calling("submit_entry", other.alarm,
                                 Create(other.alarm_list, key), other.pre)
    /\ UNCHANGED <<store, t_write, pc, alarm, alarm_id, last, calls>>

\* lines 203-225 in the second caller
OtherWrite ==
    /\ other.pc = "submit_entry"
    /\ LET key == SubmitKey(other.alarm)
           al == other.alarm_list[key]
       IN  IF NothingChanged(al, other.alarm)
           THEN other' = OtherEnded("returned")
           ELSE \/ /\ RelatedMayRaise(other.alarm)
                   /\ other' = OtherEnded("raised")
                \/ other' = Calling("apply", other.alarm,
                                    [other.alarm_list EXCEPT
                                        ![key] = WriteEntry(al, other.alarm)],
                                    other.pre)
    /\ UNCHANGED <<store, t_write, pc, alarm, alarm_id, last, calls>>

\* t_write.apply() of the second caller succeeds
OtherApplyOk ==
    /\ other.pc = "apply"
    /\ store' = CommitSubmit(store, other.alarm)
    /\ other' = OtherEnded("returned")
    /\ UNCHANGED <<t_write, pc, alarm, alarm_id, last, calls>>

\* t_write.apply() of the second caller raises
OtherApplyFails ==
    /\ other.pc = "apply"
    /\ other' = OtherEnded("raised")
    /\ UNCHANGED <<store, t_write, pc, alarm, alarm_id, last, calls>>

NextConc ==
    \/ AlarmInitConc
    \/ SubmitStartFirst
    \/ SubmitCheck
    \/ SubmitWrite
    \/ ApplyOkConc
    \/ ApplyFails
    \/ OtherStart
    \/ OtherCheck
    \/ OtherWrite
    \/ OtherApplyOk
    \/ OtherApplyFails

SpecConc == Init /\ [][NextConc]_vars

----------------------------------------------------------------------------
(* Notions the properties below are stated with *)

\* the alarm-list slot of an identity: specific_problem absent or empty is
\* the empty string
Slot(id) ==
    <<id.device, id.type, id.managed_object,
      IF id.specific_problem \in {None, Some("")}
      THEN "" ELSE id.specific_problem[1]>>

HistoryLen(entry) == Cardinality(DOMAIN entry.status_change)

\* a step in which a submit_alarm call commits and returns
SubmitCommits ==
    pc = "apply" /\ last.op = "submit_alarm" /\ last'.res = "returned"

\* states in which the last thing that happened is a submit_alarm call of
\* the record in alarm that returned
SubmitReturned ==
    pc = "idle" /\ last.op = "submit_alarm" /\ last.res = "returned"

PurgeReturned ==
    pc = "idle" /\ last.op = "purge_alarm" /\ last.res = "returned"

\* the alarm list after a submit_alarm call of a that runs alone on
\* alarm_list and returns
SubmitResult(alarm_list, a) ==
    IF cleared(a) /\ ~Exists(alarm_list, SubmitKey(a))
    THEN alarm_list
    ELSE IF NothingChanged(Create(alarm_list, SubmitKey(a))[SubmitKey(a)], a)
         THEN alarm_list
         ELSE CommitSubmit(alarm_list, a)

----------------------------------------------------------------------------
(* C1: clearing an existing, not cleared entry sets is_cleared and leaves  *)
(* last_perceived_severity as it was before the call, so it never holds    *)
(* the CLEARED code 1.                                                     *)

C1_ClearingKeepsLastSeverity ==
    [][(/\ SubmitCommits
        /\ cleared(alarm)
        /\ Slot(alarm) \in DOMAIN store
        /\ store[Slot(alarm)].is_cleared = Some(FALSE))
       => /\ store'[Slot(alarm)].is_cleared = Some(TRUE)
          /\ store'[Slot(alarm)].last_perceived_severity =
                store[Slot(alarm)].last_perceived_severity
          /\ store'[Slot(alarm)].last_perceived_severity # Some(1)]_vars

----------------------------------------------------------------------------
(* C2: submit_alarm of a cleared record whose identity has no entry        *)
(* returns from the existence check: the call ends normally without        *)
(* reaching apply and the alarm list is unchanged.                         *)

C2_NeverCreateToClear ==
    [][(/\ pc = "submit_alarm"
        /\ cleared(alarm)
        /\ Slot(alarm) \notin DOMAIN store)
       => /\ pc' = "idle"
          /\ last'.res = "returned"
          /\ t_write' = NoTrans
          /\ store' = store]_vars

C2_Witness ==
    /\ SubmitReturned
    /\ last.path = "absent"
    /\ cleared(alarm)
    /\ Slot(alarm) \notin DOMAIN store
    /\ DOMAIN store # {}

----------------------------------------------------------------------------
(* C3: submit_alarm of a record whose cleared flag, severity code and text *)
(* equal the entry's is_cleared, last_perceived_severity and               *)
(* last_alarm_text changes nothing, whatever its timestamp; and after a    *)
(* submit_alarm that returned, a record that is not cleared is in that     *)
(* case, and a cleared record has no entry or a cleared entry, so n        *)
(* submissions in a row leave what one leaves.                             *)

SameAsEntry(entry, a) ==
    /\ entry.is_cleared = Some(cleared(a))
    /\ entry.last_perceived_severity = Some(PerceivedSeverity[a.severity])
    /\ entry.last_alarm_text = Some(a.alarm_text)

C3_IdenticalSubmissionIsNoOp ==
    /\ [][(/\ pc \in {"submit_alarm", "submit_entry", "apply"}
            /\ last.op = "submit_alarm"
            /\ Slot(alarm) \in DOMAIN store
            /\ SameAsEntry(store[Slot(alarm)], alarm))
           => /\ store' = store
              /\ pc' \in {"submit_entry", "idle"}
              /\ pc' = "idle" => last'.res = "returned"]_vars
    /\ [](SubmitReturned =>
             IF cleared(alarm)
             THEN \/ Slot(alarm) \notin DOMAIN store
                  \/ store[Slot(alarm)].is_cleared = Some(TRUE)
             ELSE /\ Slot(alarm) \in DOMAIN store
                  /\ SameAsEntry(store[Slot(alarm)], alarm))

C3_Witness ==
    /\ SubmitReturned
    /\ last.path = "unchanged"
    /\ ~cleared(alarm)
    /\ SameAsEntry(store[Slot(alarm)], alarm)
    /\ store[Slot(alarm)].last_status_change # Some(alarm.timestamp)
    /\ HistoryLen(store[Slot(alarm)]) = 1

----------------------------------------------------------------------------
(* C4: submit_alarm of a cleared record on an entry that is cleared        *)
(* changes nothing in the alarm list, whatever the record's text and       *)
(* timestamp, every time.                                                  *)

C4_ClearedStaysAsFirstCleared ==
    [][(/\ pc \in {"submit_alarm", "submit_entry", "apply"}
        /\ last.op = "submit_alarm"
        /\ cleared(alarm)
        /\ Slot(alarm) \in DOMAIN store
        /\ store[Slot(alarm)].is_cleared = Some(TRUE))
       => /\ store' = store
          /\ pc' \in {"submit_entry", "idle"}
          /\ pc' = "idle" => last'.res = "returned"]_vars

C4_Witness ==
    /\ SubmitReturned
    /\ last.path = "unchanged"
    /\ cleared(alarm)
    /\ store[Slot(alarm)].is_cleared = Some(TRUE)
    /\ store[Slot(alarm)].last_alarm_text # Some(alarm.alarm_text)
    /\ store[Slot(alarm)].last_status_change # Some(alarm.timestamp)

----------------------------------------------------------------------------
(* C5: submit_alarm of a record that is not cleared on a cleared entry is  *)
(* never a no-op: when it returns, is_cleared is false,                    *)
(* last_perceived_severity is the record's code, last_alarm_text is the    *)
(* record's text and the history has one more record than before.          *)

C5_ReRaiseAddsOneHistoryRecord ==
    [][(/\ pc \in {"submit_alarm", "submit_entry", "apply"}
        /\ last.op = "submit_alarm"
        /\ ~cleared(alarm)
        /\ Slot(alarm) \in DOMAIN store
        /\ store[Slot(alarm)].is_cleared = Some(TRUE)
        /\ pc' = "idle"
        /\ last'.res = "returned")
       => /\ store'[Slot(alarm)].is_cleared = Some(FALSE)
          /\ store'[Slot(alarm)].last_perceived_severity =
                Some(PerceivedSeverity[alarm.severity])
          /\ store'[Slot(alarm)].last_alarm_text = Some(alarm.alarm_text)
          /\ HistoryLen(store'[Slot(alarm)]) =
                HistoryLen(store[Slot(alarm)]) + 1]_vars

----------------------------------------------------------------------------
(* C6: submit_alarm of a record that is not cleared and whose identity has *)
(* no entry goes on to apply, and when it returns the entry exists with    *)
(* is_cleared false, last_perceived_severity the code of the severity      *)
(* (INDETERMINATE 2, MINOR 3, WARNING 4, MAJOR 5, CRITICAL 6),             *)
(* last_alarm_text the record's text, last_status_change the record's      *)
(* timestamp and exactly one status change with that time, code and text.  *)

SeverityCode(severity) ==
    CASE severity = "INDETERMINATE" -> 2
      [] severity = "MINOR" -> 3
      [] severity = "WARNING" -> 4
      [] severity = "MAJOR" -> 5
      [] severity = "CRITICAL" -> 6

C6_CreateOnFirstSight ==
    [][(/\ pc \in {"submit_alarm", "submit_entry", "apply"}
        /\ last.op = "submit_alarm"
        /\ ~cleared(alarm)
        /\ Slot(alarm) \notin DOMAIN store)
       => /\ pc' = "idle" => last'.res = "raised" \/ pc = "apply"
          /\ (pc' = "idle" /\ last'.res = "returned") =>
                /\ Slot(alarm) \in DOMAIN store'
                /\ LET entry == store'[Slot(alarm)]
                   IN  /\ entry.is_cleared = Some(FALSE)
                       /\ entry.last_perceived_severity =
                             Some(SeverityCode(alarm.severity))
                       /\ entry.last_alarm_text = Some(alarm.alarm_text)
                       /\ entry.last_status_change = Some(alarm.timestamp)
                       /\ DOMAIN entry.status_change = {alarm.timestamp}
                       /\ entry.status_change[alarm.timestamp] =
                             [perceived_severity |->
                                  SeverityCode(alarm.severity),
                              alarm_text |-> alarm.alarm_text]]_vars

C6_Witness ==
    /\ SubmitReturned
    /\ last.path = "create"
    /\ alarm.severity = "CRITICAL"
    /\ store[Slot(alarm)].last_perceived_severity = Some(6)
    /\ HistoryLen(store[Slot(alarm)]) = 1

----------------------------------------------------------------------------
(* C7: when purge_alarm returns, the identity has no entry, whatever the   *)
(* alarm list held before; and a submit_alarm of a record that is not      *)
(* cleared for an identity without entry leaves an entry whose history has *)
(* exactly one record.                                                     *)

C7_PurgeRoundTrip ==
    /\ [](PurgeReturned => Slot(alarm_id) \notin DOMAIN store)
    /\ [][(/\ SubmitCommits
            /\ ~cleared(alarm)
            /\ Slot(alarm) \notin DOMAIN store)
           => HistoryLen(store'[Slot(alarm)]) = 1]_vars

C7_Witness ==
    /\ PurgeReturned
    /\ last.path = "delete"
    /\ alarm_id.specific_problem = None
    /\ Slot(alarm_id) \notin DOMAIN store
    /\ DOMAIN store # {}

----------------------------------------------------------------------------
(* C8: purge_alarm of an identity that has no entry returns normally       *)
(* without reaching apply and the alarm list is unchanged; purge_alarm of  *)
(* the same identity right after a purge_alarm that returned is such a     *)
(* call.                                                                   *)

C8_PurgeOfMissingEntry ==
    /\ [][(pc = "purge_alarm" /\ Slot(alarm_id) \notin DOMAIN store)
           => /\ pc' = "idle"
              /\ last'.res = "returned"
              /\ t_write' = NoTrans
              /\ store' = store]_vars
    /\ [][(PurgeReturned /\ pc' = "purge_alarm" /\ alarm_id' = alarm_id)
           => Slot(alarm_id') \notin DOMAIN store']_vars

C8_Witness ==
    /\ PurgeReturned
    /\ last.path = "missing"
    /\ Slot(alarm_id) \notin DOMAIN store
    /\ DOMAIN store # {}

----------------------------------------------------------------------------
(* C9: apply either commits the whole transaction or raises and leaves the *)
(* alarm list as it was; the alarm list changes in no other step; and no   *)
(* committed entry lacks a leaf or the status change of its last status    *)
(* change time.                                                            *)

WholeEntry(entry) ==
    /\ entry.is_cleared # Unset
    /\ entry.last_perceived_severity # Unset
    /\ entry.last_alarm_text # Unset
    /\ entry.last_status_change # Unset
    /\ entry.last_status_change[1] \in DOMAIN entry.status_change
    /\ entry.status_change[entry.last_status_change[1]].alarm_text =
          entry.last_alarm_text[1]

C9_CommitIsAllOrNothing ==
    /\ [][pc = "apply" =>
             /\ pc' = "idle"
             /\ t_write' = NoTrans
             /\ \/ store' = t_write.alarm_list /\ last'.res = "returned"
                \/ store' = store /\ last'.res = "raised"]_vars
    /\ [][store' # store => pc = "apply"]_vars
    /\ [](\A key \in DOMAIN store : WholeEntry(store[key]))

C9_Witness ==
    /\ pc = "idle"
    /\ last = Ended("submit_alarm", "raised", "create")
    /\ Slot(alarm) \notin DOMAIN store
    /\ DOMAIN store # {}

----------------------------------------------------------------------------
(* C10: a record whose severity is CLEARED comes only from the cleared     *)
(* setter: the constructor and the severity setter never leave the record  *)
(* with severity CLEARED unless it had it before.                          *)

C10_ClearedOnlyThroughClearedSetter ==
    [][(alarm' # NoAlarm /\ alarm' # alarm /\ alarm'.severity = "CLEARED")
       => \/ last'.op = "cleared"
          \/ alarm # NoAlarm /\ last'.op # "Alarm"
                /\ alarm.severity = "CLEARED"]_vars

----------------------------------------------------------------------------
(* C11: the text an Alarm holds, however it was given (as the constructor  *)
(* argument or through the alarm_text setter), and every text in the alarm *)
(* list (last_alarm_text and the text of each status change) has at most   *)
(* max_length characters.                                                  *)

C11_TextIsCapped ==
    /\ alarm # NoAlarm => Len(alarm.alarm_text) <= max_length
    /\ \A key \in DOMAIN store :
          /\ store[key].last_alarm_text # Unset =>
                Len(store[key].last_alarm_text[1]) <= max_length
          /\ \A t \in DOMAIN store[key].status_change :
                Len(store[key].status_change[t].alarm_text) <= max_length

----------------------------------------------------------------------------
(* C12: once the record's severity is CLEARED, no setter call on that      *)
(* record makes cleared false again.                                       *)

C12_ClearedIsAbsorbing ==
    [][(/\ alarm # NoAlarm
        /\ alarm.severity = "CLEARED"
        /\ alarm' # NoAlarm
        /\ last'.op # "Alarm")
       => alarm'.severity = "CLEARED"]_vars

(* C12 as amended: on a record whose severity is CLEARED the cleared       *)
(* setter (with either value) and the alarm_text setter leave cleared      *)
(* true; only the severity setter, given a severity other than CLEARED,    *)
(* or the construction of a new record gives a record that is not cleared. *)

C12_OnlySeveritySetterLeavesCleared ==
    [][(/\ alarm # NoAlarm
        /\ alarm.severity = "CLEARED"
        /\ alarm' # NoAlarm
        /\ alarm'.severity # "CLEARED")
       => last'.op \in {"Alarm", "severity"}]_vars

C12_Witness ==
    /\ pc = "idle"
    /\ last.op \in {"cleared", "alarm_text"}
    /\ alarm.severity = "CLEARED"
    /\ DOMAIN store # {}

----------------------------------------------------------------------------
(* C13: every submit_alarm that commits on an existing entry adds exactly  *)
(* one status change with the record's timestamp, code and text, and       *)
(* leaves every status change the entry had before as it was, also when    *)
(* the timestamp is the time of an earlier status change.                  *)

C13_HistoryIsAppendOnly ==
    [][(SubmitCommits /\ Slot(alarm) \in DOMAIN store)
       => LET old == store[Slot(alarm)].status_change
              new == store'[Slot(alarm)].status_change
          IN  /\ Cardinality(DOMAIN new) = Cardinality(DOMAIN old) + 1
              /\ new[alarm.timestamp] =
                    [perceived_severity |-> PerceivedSeverity[alarm.severity],
                     alarm_text |-> alarm.alarm_text]
              /\ \A t \in DOMAIN old : t \in DOMAIN new /\ new[t] = old[t]]_vars

----------------------------------------------------------------------------
(* C14: when two submit_alarm calls for the same identity have run at the  *)
(* same time and both have returned, the committed alarm list is the one   *)
(* that results from running the two calls one after the other, in one of  *)
(* the two orders, on the alarm list committed before them.                *)

C14_ConcurrentSubmitsAreSerialized ==
    (/\ pc = "idle"
     /\ last.op = "submit_alarm"
     /\ last.res = "returned"
     /\ other.pc = "done"
     /\ other.res = "returned")
    => store \in
         {SubmitResult(SubmitResult(other.pre, alarm), other.alarm),
          SubmitResult(SubmitResult(other.pre, other.alarm), alarm)}

----------------------------------------------------------------------------
(* C15: a write transaction is open exactly while a submit_alarm or        *)
(* purge_alarm call is in progress: whenever no call is in progress, after *)
(* an early return, a commit, a missing entry or an error, none is open.   *)

C15_TransactionIsScopedToTheCall ==
    /\ pc = "idle" => t_write = NoTrans
    /\ pc # "idle" => t_write.open

C15_Witness ==
    /\ pc = "idle"
    /\ last = Ended("purge_alarm", "raised", "delete")
    /\ t_write = NoTrans
    /\ Slot(alarm_id) \in DOMAIN store

----------------------------------------------------------------------------
(* C16: when a submit_alarm call commits, the entry's impacted_objects and *)
(* root_cause_objects are the record's lists (none for an absent list) and *)
(* its related_alarms are the ones it had before together with the slots   *)
(* of the record's related alarms.                                         *)

C16_CorrelationListsOnUpdate ==
    [][SubmitCommits
       => LET entry == store'[Slot(alarm)]
              before == IF Slot(alarm) \in DOMAIN store
                        THEN store[Slot(alarm)].related_alarms ELSE {}
          IN  /\ entry.impacted_objects =
                    IF alarm.impacted_objects = None
                    THEN <<>> ELSE alarm.impacted_objects[1]
              /\ entry.root_cause_objects =
                    IF alarm.root_cause_objects = None
                    THEN <<>> ELSE alarm.root_cause_objects[1]
              /\ entry.related_alarms =
                    before \cup {Slot(ra) : ra \in RelatedOf(alarm)}]_vars

----------------------------------------------------------------------------
(* C17: an identity is turned into its slot (specific_problem absent taken *)
(* as the empty string) wherever it becomes a key: the entry submit_alarm  *)
(* commits is at the record's slot, the related alarms it writes are at    *)
(* the slots of the record's related alarms, and purge_alarm deletes the   *)
(* entry at the identity's slot.                                           *)

C17_SameNormalisationForEveryKey ==
    [][/\ SubmitCommits =>
            /\ Slot(alarm) \in DOMAIN store'
            /\ \A ra \in RelatedOf(alarm) :
                  Slot(ra) \in store'[Slot(alarm)].related_alarms
       /\ (pc = "apply" /\ last.op = "purge_alarm" /\ last'.res = "returned")
            => Slot(alarm_id) \notin DOMAIN store']_vars

----------------------------------------------------------------------------
(* C18: every entry of the committed alarm list has a status change whose  *)
(* time is last_status_change, whose text is last_alarm_text and whose     *)
(* severity is the CLEARED code exactly when is_cleared is true.           *)

----------------------------------------------------------------------------
(* C19: when submit_alarm of a record has returned, an entry of the        *)
(* record's identity has is_cleared equal to the record's cleared; and for *)
(* a record that is not cleared the entry exists and holds the record's    *)
(* severity code and text.                                                 *)

C19_NoLostTransition ==
    SubmitReturned =>
        /\ Slot(alarm) \in DOMAIN store =>
              store[Slot(alarm)].is_cleared = Some(alarm.severity = "CLEARED")
        /\ alarm.severity # "CLEARED" =>
              /\ Slot(alarm) \in DOMAIN store
              /\ store[Slot(alarm)].last_perceived_severity =
                    Some(PerceivedSeverity[alarm.severity])
              /\ store[Slot(alarm)].last_alarm_text = Some(alarm.alarm_text)

C19_Witness ==
    /\ SubmitReturned
    /\ last.path = "update"
    /\ alarm.severity = "MAJOR"
    /\ store[Slot(alarm)].last_perceived_severity = Some(5)
    /\ HistoryLen(store[Slot(alarm)]) = 2

----------------------------------------------------------------------------
(* C20: a step of submit_alarm or purge_alarm that changes the alarm list  *)
(* changes the entry at the slot of the call's identity only: every other  *)
(* entry, also one the record names as a related alarm, is there before    *)
(* and after and is the same.                                              *)

C20_OtherEntriesAreUntouched ==
    [][store' # store
       => LET target == IF last.op = "purge_alarm"
                        THEN Slot(alarm_id) ELSE Slot(alarm)
          IN  \A key \in (DOMAIN store \cup DOMAIN store') \ {target} :
                  /\ key \in DOMAIN store
                  /\ key \in DOMAIN store'
                  /\ store'[key] = store[key]]_vars

C20_Witness ==
    /\ SubmitReturned
    /\ last.path \in {"create", "update"}
    /\ \E ra \in RelatedOf(alarm) :
          /\ Slot(ra) # Slot(alarm)
          /\ Slot(ra) \in DOMAIN store
          /\ Slot(ra) \in store[Slot(alarm)].related_alarms

====
